---- MODULE Spec2Model ----
(***************************************************************************)
(* Model of the /scrape endpoint of Backend/main.py: the event_generator   *)
(* orchestrator, one run_site_scraping worker thread per requested site,   *)
(* the shared asyncio.Queue of progress events, the Kavak detail extractor *)
(* of "Backend/prueba scrap kavak.py" with its bounded reconciliation      *)
(* retries, and the Mercado Libre extractor of "Backend/prueba scrap       *)
(* meli.py" with its pagination.                                           *)
(*                                                                         *)
(* Strings whose content the code inspects (site keys, year and km values) *)
(* are sequences of one-character strings.  Agent calls are the            *)
(* environment: each returns a value from a small set or raises.           *)
(* sessions.end and close are teardown calls and are taken to return.      *)
(***************************************************************************)
EXTENDS Integers, Sequences, FiniteSets, TLC

VARIABLES
    Stagehand,          \* main.py:30-33   TRUE iff the SDK import succeeded
    sites,              \* request.sites
    opc,                \* position of scrape_cars / event_generator
    tasks,              \* main.py:531     site key of every created task
    task,               \* per task: the locals of run_site_scraping
    queue,              \* main.py:411     asyncio.Queue of progress events
    yielded,            \* set of progress events already yielded
    errCount,           \* per task: error events yielded on the stream
    finalCount,         \* number of final events yielded
    last,               \* type of the last object yielded on the stream
    finalStatus,        \* status of the final event
    finalData,          \* "data" of the final event
    res_stats,          \* "stats" of the final event
    all_site_results,   \* main.py:546     result of asyncio.gather
    extracted_data,     \* main.py:412
    joinedAtFinal,      \* every task was finished when final was yielded
    details,            \* the (year, km) pairs the detail extraction may report
    listings,           \* the results the listing extraction may return
    nav_instr,          \* request.nav_instr_kavak and request.nav_instr_meli
    seen,               \* per task: how many of its events were yielded
    inOrder,            \* every task's events were yielded as emitted
    emitted,            \* per task: how many progress events it has enqueued
    inFlight            \* the tasks unfinished when the consumer went away

vars == <<Stagehand, sites, opc, tasks, task, queue, yielded, errCount,
          finalCount, last, finalStatus, finalData, res_stats,
          all_site_results, extracted_data, joinedAtFinal, details,
          listings, nav_instr, seen, inOrder, emitted, inFlight>>

----------------------------------------------------------------------------
(* Bounds *)

\* how many vehicles beyond max_publications the listing extraction may
\* return in a run of the module's own main()
MaxExtra == 1

\* the longest listing returned in a run of the server
MaxListing == 2

\* progress events a worker may have pending in the queue
MaxQueue == 3

\* the longest list one results page of Mercado Libre yields
MaxPageSize == 3

\* the pages of results the "Siguiente" button leads through
MaxPages == 2

\* the longest listing returned in the runs with a fair generator, with a
\* consumer that may disconnect, or with repeated site keys
MaxShortListing == 1

----------------------------------------------------------------------------
(* Characters and strings *)

Digits == {"0", "1", "2", "3", "6", "8", "9"}

Letters == {"a", "b", "c", "d", "e", "i", "k", "l", "m", "o", "r", "v",
            "K", "L", "M"}

\* str.lower on the characters used here
Lower(c) ==
    CASE c = "K" -> "k"
      [] c = "L" -> "l"
      [] c = "M" -> "m"
      [] OTHER -> c

LowerSeq(s) == [j \in 1..Len(s) |-> Lower(s[j])]

IsAlnum(c) == c \in Digits \cup Letters

\* norm keeping letters only when they are digits: strips units as well
norm_strip_units(s) == LowerSeq(SelectSeq(s, LAMBDA c : c \in Digits))

\* re.sub(r'[^a-zA-Z0-9]', '', str(s)).lower()
norm(s) == LowerSeq(SelectSeq(s, IsAlnum))

\* s.replace(" ", "")
RemoveSpaces(s) == SelectSeq(s, LAMBDA c : c # " ")

\* sub in s
Contains(sub, s) ==
    \E j \in 0..(Len(s) - Len(sub)) : SubSeq(s, j + 1, j + Len(sub)) = sub

kavak == <<"k", "a", "v", "a", "k">>

mercadolibre == <<"m", "e", "r", "c", "a", "d", "o", "l", "i", "b", "r", "e">>

SITE_URLS == {kavak, mercadolibre}

----------------------------------------------------------------------------
(* The request *)

ReqKavak == <<"K", "a", "v", "a", "k">>

ReqMeli == <<"M", "e", "r", "c", "a", "d", "o", " ", "L", "i", "b", "r", "e">>

ReqOther == <<"a", "u", "t", "o", "c", "i", "t", "y">>

\* values of request.sites explored
RequestSites ==
    { <<ReqKavak, ReqMeli>>, <<ReqMeli, ReqKavak>>, <<ReqKavak>>,
      <<ReqOther>> }

\* a navigation template: literal text and {name} replacement fields
Text(s) == [kind |-> "text", v |-> s]

Field(name) == [kind |-> "field", v |-> name]

\* nav_instr_kavak / nav_instr_meli left at their default (main.py:63, 65)
None == <<>>

\* "Buscar {marca} {modelo}"
TemplateBound ==
    <<Text("Buscar "), Field("marca"), Text(" "), Field("modelo")>>

\* "Buscar {marca} color {color}"
TemplateUnbound ==
    <<Text("Buscar "), Field("marca"), Text(" color "), Field("color")>>

\* values of (nav_instr_kavak, nav_instr_meli) explored
NavInstrs ==
    { [kavak |-> None, meli |-> None],
      [kavak |-> TemplateBound, meli |-> TemplateUnbound],
      [kavak |-> TemplateUnbound, meli |-> TemplateBound] }

\* request.brand, request.model, request.year, request.version as
\* main.py:344 binds them
FormatArgs ==
    [marca |-> "Toyota", modelo |-> "Corolla", anio |-> "2021",
     version |-> "XEI"]

\* str.format(**args): every field is replaced by the value bound to its
\* name; a field whose name is not bound raises KeyError
Format(template, args) ==
    IF \E j \in 1..Len(template) :
         template[j].kind = "field" /\ template[j].v \notin DOMAIN args
    THEN [raised |-> TRUE, value |-> <<>>]
    ELSE [raised |-> FALSE,
          value |-> [j \in 1..Len(template) |->
                       IF template[j].kind = "field"
                       THEN args[template[j].v]
                       ELSE template[j].v]]

\* main.py:338-376
get_full_navigation_instruction(domain, args, custom_template) ==
    IF custom_template # <<>>
    THEN Format(custom_template, args)
    ELSE [raised |-> FALSE,
          value |->
            CASE Contains(kavak, domain) ->
                   <<"kavak: ", args.marca, args.modelo, args.anio>>
              [] ~Contains(kavak, domain) /\ Contains(mercadolibre, domain) ->
                   <<"mercadolibre: ", args.marca, args.modelo, args.anio>>
              [] OTHER ->
                   <<"otro: ", args.marca, args.modelo, args.anio>>]

\* main.py:466
NavMaxSteps == 20

\* "prueba scrap kavak.py":94
KavakMaxSteps == 5

\* "prueba scrap meli.py":80
MeliMaxSteps == 3

\* "kavak", as the key is stored
ReqKavakLower == kavak

\* more values of request.sites
MoreRequestSites ==
    { <<>>, <<ReqMeli, ReqMeli>>, <<ReqOther, ReqKavakLower>>,
      <<ReqOther, ReqOther>> }

\* main.py:504
max_pubs == 5

\* "prueba scrap kavak.py":158
MainMaxPublications == 5

\* What a listing extraction returns in data.result: a string holding
\* fenced JSON of a list, a list, or an object.  An object has its n
\* records under the key named, or is a single record (key "none").
RawString(n) == [kind |-> "string", key |-> "none", n |-> n]

RawList(n) == [kind |-> "list", key |-> "none", n |-> n]

RawObject(key, n) == [kind |-> "object", key |-> key, n |-> n]

\* no extraction has returned yet
NoRaw == [kind |-> "none", key |-> "none", n |-> 0]

\* the results whose list is not under "vehicles"
OtherShapes ==
    { RawString(2), RawList(2), RawObject("none", 1) }
    \cup { RawObject(k, 2) : k \in {"autos", "items", "results", "data"} }

\* results of the listing extraction in a run of the module's own main()
ScriptListings ==
    { RawObject("vehicles", n) : n \in 0..(MainMaxPublications + MaxExtra) }
    \cup OtherShapes

\* results of the listing extraction in a run of the server
ServerListings == { RawObject("vehicles", n) : n \in 0..MaxListing }

\* "prueba scrap kavak.py":65, "prueba scrap meli.py":63:
\* listings_info.data.result.get("vehicles", []); a result that is not
\* a dict has no get and the call raises AttributeError
ListingVehicles(raw) ==
    IF raw.kind = "object"
    THEN [raised |-> FALSE, n |-> IF raw.key = "vehicles" THEN raw.n ELSE 0]
    ELSE [raised |-> TRUE, n |-> 0]

\* the summary (year, km) of the vehicle at position i of the listing
ListingYear(i) == <<"2", "0", "2", "1">>

ListingKm(i) ==
    IF i % 2 = 1 THEN <<"1", "3", "6", "0", "0", "0">>
                 ELSE <<"9", "8", "0", "0", "0">>

\* values the detail extraction may report
DetailYears == { <<"2", "0", "2", "1">>, <<"2", "0", "2", "0">> }

DetailKms ==
    { <<"1", "3", "6", ",", "0", "0", "0", " ", "k", "m">>,
      <<"1", "3", "6", ",", "0", "0", "0">>,
      <<"9", "8", "0", "0", "0">> }

\* the details reported in a run of the module's own main()
ScriptDetails == [year : DetailYears, km : DetailKms]

\* the details reported in a run of the server
ServerDetails ==
    { [year |-> <<"2", "0", "2", "1">>,
       km |-> <<"1", "3", "6", ",", "0", "0", "0">>],
      [year |-> <<"2", "0", "2", "1">>, km |-> <<"9", "8", "0", "0", "0">>] }

----------------------------------------------------------------------------
(* Progress events *)

Status(t, m) == [type |-> "status", task |-> t, msg |-> m]

ErrorEvent(t) == [type |-> "error", task |-> t, msg |-> "error"]

\* the event with its position k among the events of its task (0: the
\* event is the generator's own)
Stamp(ev, k) == [type |-> ev.type, task |-> ev.task, msg |-> ev.msg, n |-> k]

Unstamp(ev) == [type |-> ev.type, task |-> ev.task, msg |-> ev.msg]

\* the generator's own messages
Own(evs) == [j \in 1..Len(evs) |-> Stamp(evs[j], 0)]

\* the events are put in front of the queue
Emit_prepend(evs) ==
    LET t == evs[1].task IN
    /\ queue' = [j \in 1..Len(evs) |-> Stamp(evs[j], emitted[t] + j)] \o queue
    /\ emitted' = [emitted EXCEPT ![t] = @ + Len(evs)]

\* put blocks the caller while the queue holds MaxQueue events
Emit_bounded(evs) ==
    LET t == evs[1].task IN
    /\ Len(queue) + Len(evs) <= MaxQueue
    /\ queue' = queue \o [j \in 1..Len(evs) |-> Stamp(evs[j], emitted[t] + j)]
    /\ emitted' = [emitted EXCEPT ![t] = @ + Len(evs)]

\* log_status / send_error: loop.call_soon_threadsafe(queue.put_nowait, ev)
\* on the queue of line 412, built without maxsize.  The events of evs are
\* those of one task, in the order of its calls.
Emit(evs) ==
    LET t == evs[1].task IN
    /\ queue' = queue \o [j \in 1..Len(evs) |-> Stamp(evs[j], emitted[t] + j)]
    /\ emitted' = [emitted EXCEPT ![t] = @ + Len(evs)]

----------------------------------------------------------------------------
(* State of one run_site_scraping call *)

NoDetail == [year |-> <<>>, km |-> <<>>, accepted |-> FALSE]

NewTask(site) ==
    [ site |-> site,
      pc |-> "init",
      progress_callback |-> TRUE,       \* FALSE: the extractor is given None
      max_publications |-> max_pubs,
      client_sync |-> "none",           \* none / open / closed
      session |-> "none",               \* none / started / ended
      client |-> 0,                     \* the Stagehand object built, 0: none
      sess_id |-> 0,                    \* the session started, 0: none
      calledOn |-> {},                  \* sessions the agent calls went to
      doneBefore |-> {},                \* tasks finished when this one returned
      ret |-> "running",                \* outcome of the thread
      vehicles |-> 0,                   \* Len(vehicles)
      i |-> 0,
      attempt |-> 0,
      all_extracted_items |-> <<>>,     \* positions of the accepted vehicles
      tries |-> 0,                      \* attempts made for vehicle i
      processed |-> 0,                  \* vehicles whose processing began
      nomatch |-> {},                   \* vehicles whose 3 attempts never matched
      validated |-> "none",             \* none / true / false
      callAfterStop |-> FALSE,          \* an agent call followed has_results = false
      sawMatch |-> FALSE,               \* some attempt for vehicle i matched the summary
      detail |-> NoDetail,              \* the detail of the latest attempt
      navigated |-> FALSE,              \* the navigate of line 452 returned
      instruction |-> <<>>,             \* main.py:458
      max_steps |-> {},                 \* max_steps of the execute calls issued
      page_number |-> 1,                \* "prueba scrap meli.py":38
      ordered |-> TRUE,                 \* every attempt called in the order of CallOrder
      renavigated |-> FALSE,            \* the first attempt of all opened the results page
      raw |-> NoRaw ]                   \* latest result of the listing extraction

Tasks == 1..Len(tasks)

\* t.done(): the thread has returned or raised.  Its progress events were
\* handed to the loop before the completion of its future, and the loop
\* runs callbacks in order, so they are in the queue when the task is done.
Finished(t) == task[t].pc \in {"returned", "raised"}

UNCHANGED_orch ==
    UNCHANGED <<Stagehand, inFlight, sites, opc, tasks, yielded, errCount,
                seen, inOrder, finalCount, last, finalStatus, finalData,
                res_stats, all_site_results, extracted_data, joinedAtFinal,
                details, listings, nav_instr>>

\* an exception escapes run_site_scraping
Raise(r) == [r EXCEPT !.pc = "raised", !.ret = "exception"]

\* a navigate / execute / extract call is issued
Called(r) ==
    [r EXCEPT !.callAfterStop = @ \/ (r.validated = "false"),
              !.calledOn = @ \cup {r.sess_id}]

\* sessions.execute is called with execute_options = options
Execute(r, options) ==
    [Called(r) EXCEPT !.max_steps = @ \cup {options.max_steps}]

\* main.py:455: the template of the task's site
site_nav_instr(site) ==
    IF Contains(kavak, site) THEN nav_instr.kavak ELSE nav_instr.meli

----------------------------------------------------------------------------
(* run_site_scraping, main.py:431-527 *)

\* every call of run_site_scraping is handed the one client of the process
NewClient_shared(t) == 1

\* main.py:438, "prueba scrap kavak.py":178, "prueba scrap meli.py":150:
\* Stagehand(...) is evaluated inside the call, so the t-th call builds an
\* object of its own, named here by t
NewClient(t) == t

\* the client is built
Client(r, t) == [r EXCEPT !.client_sync = "open", !.client = NewClient(t)]

\* main.py:446-450: sessions.start on the task's client, which runs a
\* server of its own (server="local"); the session is named by its client
Session(r) == [r EXCEPT !.session = "started", !.sess_id = r.client]

\* lines 437-458: the client is built, the session started, the site
\* opened, the navigation instruction built; line 458 is outside any try
StartAgent(t) ==
    /\ task[t].pc = "init"
    /\ Emit(<<Status(t, "iniciando")>>)
    /\ \E out \in {"ok", "raise_client", "raise_start", "raise_navigate"} :
         task' = [task EXCEPT ![t] =
           CASE out = "raise_client" -> Raise(@)
             [] out = "raise_start" -> Raise(Client(@, t))
             [] out = "raise_navigate" -> Raise(Called(Session(Client(@, t))))
             [] OTHER ->
                  LET r == Called([Session(Client(@, t))
                                     EXCEPT !.navigated = TRUE])
                      instr == get_full_navigation_instruction(
                                   r.site, FormatArgs, site_nav_instr(r.site))
                  IN  IF instr.raised
                      THEN Raise(r)
                      ELSE [r EXCEPT !.instruction = instr.value,
                                     !.pc = "execute"]]
    /\ UNCHANGED_orch

\* execute_options of the calls of sessions.execute: main.py:464-467,
\* "prueba scrap kavak.py":90-95, "prueba scrap meli.py":80
ExecuteOptions_unbounded(caller) == [max_steps |-> 0]

ExecuteOptions(caller) ==
    [max_steps |-> CASE caller = "navigation" -> NavMaxSteps
                     [] caller = "kavak" -> KavakMaxSteps
                     [] caller = "meli" -> MeliMaxSteps]

\* lines 460-477: the navigation execute; a failure is reported and
\* the function returns "ERROR"
NavigationExecute(t) ==
    /\ task[t].pc = "execute"
    /\ \E out \in {"ok", "raise"} :
         IF out = "ok"
         THEN /\ Emit(<<Status(t, "navegando")>>)
              /\ task' = [task EXCEPT ![t] =
                   Execute([@ EXCEPT !.pc = "check"],
                           ExecuteOptions("navigation"))]
         ELSE /\ Emit(<<Status(t, "navegando"), ErrorEvent(t)>>)
              /\ task' = [task EXCEPT ![t] =
                   Execute([@ EXCEPT !.pc = "returned", !.ret = "ERROR"],
                           ExecuteOptions("navigation"))]
    /\ UNCHANGED_orch

\* not has_results: the validation stops the task
ValidateStops_ignored(has_results) == FALSE

\* line 487: not check_result.data.result.get("has_results", False)
ValidateStops(has_results) == ~has_results

\* lines 480-491: the validation extraction and the no-results exit
CheckResults(t) ==
    /\ task[t].pc = "check"
    /\ \E out \in {"raise", "true", "false"} :
         CASE out = "raise" ->
                /\ Emit(<<Status(t, "verificando")>>)
                /\ task' = [task EXCEPT ![t] = Raise(Called(@))]
           [] out # "raise" /\ ValidateStops(out = "true") ->
                /\ Emit(<<Status(t, "verificando"),
                          Status(t, "sin_resultados")>>)
                /\ task' = [task EXCEPT ![t] =
                     [Called(@) EXCEPT !.validated = out,
                                       !.session = "ended",
                                       !.client_sync = "closed",
                                       !.pc = "returned",
                                       !.ret = "NO_RESULTS"]]
           [] OTHER ->
                /\ Emit(<<Status(t, "verificando")>>)
                /\ task' = [task EXCEPT ![t] =
                     [Called(@) EXCEPT !.validated = out, !.pc = "url"]]
    /\ UNCHANGED_orch

\* lines 494-500: the URL of the filtered results page
CurrentUrl(t) ==
    /\ task[t].pc = "url"
    /\ \E out \in {"ok", "raise"} :
         IF out = "ok"
         THEN /\ Emit(<<Status(t, "confirmados")>>)
              /\ task' = [task EXCEPT ![t] = Called([@ EXCEPT !.pc = "details"])]
         ELSE /\ UNCHANGED <<queue, emitted>>
              /\ task' = [task EXCEPT ![t] = Raise(Called(@))]
    /\ UNCHANGED_orch

\* parameters extract_meli_details declares ("prueba scrap meli.py":21)
MeliParams == 6

\* positional arguments passed at main.py:513-515, and the keyword
MeliArgs == 8

\* lines 506-517: the site's detail extractor is selected and called
CallExtractor(t) ==
    /\ task[t].pc = "details"
    /\ CASE Contains(kavak, task[t].site) ->
              /\ UNCHANGED <<queue, emitted>>
              /\ task' = [task EXCEPT ![t] = [@ EXCEPT !.pc = "k_list"]]
         [] ~Contains(kavak, task[t].site)
              /\ Contains(mercadolibre, task[t].site) ->
              /\ UNCHANGED <<queue, emitted>>
              /\ task' = [task EXCEPT ![t] =
                   IF MeliArgs > MeliParams      \* TypeError at the call
                   THEN Raise(@)
                   ELSE [@ EXCEPT !.pc = "end"]]
         [] OTHER ->
              /\ Emit(<<Status(t, "no_soportado")>>)
              /\ task' = [task EXCEPT ![t] = [@ EXCEPT !.pc = "end"]]
    /\ UNCHANGED_orch

\* lines 519-527: the session is ended, the client closed, the items returned
EndSession(t) ==
    /\ task[t].pc = "end"
    /\ Emit(<<Status(t, IF task[t].all_extracted_items = <<>>
                        THEN "no_se_extrajeron" ELSE "finalizada")>>)
    /\ task' = [task EXCEPT ![t] =
         [@ EXCEPT !.session = "ended", !.client_sync = "closed",
                   !.pc = "returned", !.ret = "dict",
                   !.doneBefore = {u \in Tasks : Finished(u)}]]
    /\ UNCHANGED_orch

----------------------------------------------------------------------------
(* extract_kavak_details, "prueba scrap kavak.py":21-150 *)

\* lines 25-28: notify
Notify(t, evs) ==
    IF task[t].progress_callback THEN Emit(evs)
                                 ELSE UNCHANGED <<queue, emitted>>

\* where the extractor returns to: run_site_scraping or the module's main()
ReturnPc(r) == IF r.progress_callback THEN "end" ELSE "main_end"

\* lines 44-72: the listing extraction; its exception is swallowed
KavakListing(t) ==
    /\ task[t].pc = "k_list"
    /\ \/ /\ UNCHANGED <<queue, emitted>>             \* extract raises
          /\ task' = [task EXCEPT ![t] =
               Called([@ EXCEPT !.vehicles = 0, !.pc = ReturnPc(task[t])])]
       \/ \E raw \in listings :
            LET vehicles == ListingVehicles(raw)
                r == [Called(task[t]) EXCEPT !.raw = raw,
                                             !.vehicles = vehicles.n]
            IN  CASE vehicles.raised ->                   \* lines 70-72
                       /\ UNCHANGED <<queue, emitted>>
                       /\ task' = [task EXCEPT ![t] =
                            [r EXCEPT !.pc = ReturnPc(task[t])]]
                  [] ~vehicles.raised /\ vehicles.n = 0 ->
                       /\ Notify(t, <<Status(t, "no_vehiculos")>>)
                       /\ task' = [task EXCEPT ![t] =
                            [r EXCEPT !.pc = ReturnPc(task[t])]]
                  [] OTHER ->
                       /\ Notify(t, <<Status(t, "total_identificado")>>)
                       /\ task' = [task EXCEPT ![t] =
                            [r EXCEPT !.i = 1, !.pc = "k_item"]]
    /\ UNCHANGED_orch

\* lines 77-83: the next vehicle of the listing
KavakItem(t) ==
    /\ task[t].pc = "k_item"
    /\ Notify(t, <<Status(t, "procesando")>>)
    /\ task' = [task EXCEPT ![t] =
         [@ EXCEPT !.attempt = 0, !.tries = 0, !.sawMatch = FALSE,
                   !.detail = NoDetail, !.processed = @ + 1,
                   !.pc = "k_attempt"]]
    /\ UNCHANGED_orch

\* the summary and the detail agree on one of the two fields
Accepts_either(ly, lkm, dy, dkm) ==
    \/ norm(ly) = norm(dy)
    \/ norm(lkm) = norm(dkm)

\* lines 130-135: year_match and km_match
Accepts(ly, lkm, dy, dkm) ==
    /\ norm(ly) = norm(dy)
    /\ norm(lkm) = norm(dkm)

\* an attempt ended by an exception is not counted
AttemptAfter_uncounted(attempt, out) ==
    IF out \in {"raise_navigate", "raise_execute", "raise_extract"}
    THEN attempt
    ELSE attempt + 1

\* line 84: the next value of the loop variable of range(3)
AttemptAfter(attempt, out) == attempt + 1

\* line 84
MaxAttempts == 3

\* the vehicle after vehicle i, or the end of the loop of line 77
NextVehicle(r) ==
    [r EXCEPT !.i = @ + 1,
              !.nomatch = IF r.sawMatch THEN @ ELSE @ \cup {r.i},
              !.pc = IF r.i + 1 > r.vehicles THEN ReturnPc(r) ELSE "k_item"]

\* an exception of an agent call leaves the extractor
Retry_propagates(r, out) ==
    IF out \in {"raise_navigate", "raise_execute", "raise_extract"}
    THEN Raise(r)
    ELSE IF AttemptAfter(r.attempt, out) < MaxAttempts
         THEN [r EXCEPT !.attempt = AttemptAfter(r.attempt, out)]
         ELSE NextVehicle([r EXCEPT !.attempt = AttemptAfter(r.attempt, out)])

\* lines 141-147: the attempt is over without a match, by a mismatch, an
\* empty detail or an exception caught at line 146: retry, or give the
\* vehicle up
Retry(r, out) ==
    LET a == AttemptAfter(r.attempt, out)
        q == [r EXCEPT !.attempt = a]
    IN  IF a < MaxAttempts THEN q ELSE NextVehicle(q)

\* the record is put in front of the output list
AddItem_front(items, i) == <<i>> \o items

\* "prueba scrap kavak.py":137, "prueba scrap meli.py":118:
\* all_extracted_items.append(item)
AddItem(items, i) == Append(items, i)

\* the record is appended but the loop of line 84 is not left
Accept_keeps_trying(r) ==
    Retry([r EXCEPT !.all_extracted_items = AddItem(@, r.i)], "match")

\* lines 135-140: the record is appended, success = True, break
Accept(r) ==
    NextVehicle([r EXCEPT !.all_extracted_items = AddItem(@, r.i)])

\* line 86: the results page is opened again at the start of every attempt
NavigatesBack(i, attempt) == TRUE

\* lines 86-133: the agent calls an attempt of vehicle i issues up to the
\* point where it ends, in the order the code issues them
AttemptCalls(i, attempt, out) ==
    (IF NavigatesBack(i, attempt) THEN <<"navigate">> ELSE <<>>) \o
    CASE out = "raise_navigate" -> <<>>
      [] out = "raise_execute" -> <<"execute">>
      [] out \in {"raise_extract", "empty"} -> <<"execute", "extract">>
      [] OTHER -> <<"execute", "extract", "compare">>

\* navigate to the results page, open the item, extract the detail, compare
CallOrder == <<"navigate", "execute", "extract", "compare">>

Rank(call) == CHOOSE k \in 1..Len(CallOrder) : CallOrder[k] = call

\* the calls are some of CallOrder, each once, in that order
InCallOrder(calls) ==
    \A a, b \in 1..Len(calls) : a < b => Rank(calls[a]) < Rank(calls[b])

\* what the attempt `attempt` of vehicle i leaves in the task's record
Attempted(r, calls) ==
    [r EXCEPT !.ordered = @ /\ InCallOrder(calls),
              !.renavigated = @ \/ (r.i = 1 /\ r.attempt = 0 /\
                                     Len(calls) > 0 /\ calls[1] = "navigate")]

\* lines 85-145: one attempt: navigate, execute, extract, compare
KavakAttempt(t) ==
    /\ task[t].pc = "k_attempt"
    /\ LET i == task[t].i
           calls(out) == AttemptCalls(i, task[t].attempt, out)
           r == [Called(task[t]) EXCEPT !.tries = @ + 1, !.detail = NoDetail]
           x == Execute(r, ExecuteOptions("kavak"))
       IN
       \/ /\ UNCHANGED <<queue, emitted>>
          /\ task' = [task EXCEPT ![t] =
               Retry(Attempted(r, calls("raise_navigate")),
                     "raise_navigate")]
       \/ /\ Notify(t, <<Status(t, "abriendo")>>)
          /\ \E out \in {"raise_execute", "raise_extract", "empty"} :
               task' = [task EXCEPT ![t] =
                 Retry(Attempted(x, calls(out)), out)]
       \/ \E dt \in details :
            LET d == [year |-> dt.year, km |-> dt.km,
                      accepted |-> Accepts(ListingYear(i), ListingKm(i),
                                           dt.year, dt.km)]
                m == /\ norm(ListingYear(i)) = norm(dt.year)
                     /\ norm(ListingKm(i)) = norm(dt.km)
                q == [Attempted(x, calls("compared"))
                        EXCEPT !.detail = d, !.sawMatch = @ \/ m]
            IN  IF d.accepted
                THEN /\ Notify(t, <<Status(t, "abriendo"),
                                    Status(t, "detalle")>>)
                     /\ task' = [task EXCEPT ![t] = Accept(q)]
                ELSE /\ Notify(t, <<Status(t, "abriendo"),
                                    Status(t, "detalle"),
                                    Status(t, "no_coinciden")>>)
                     /\ task' = [task EXCEPT ![t] = Retry(q, "mismatch")]
    /\ UNCHANGED_orch

----------------------------------------------------------------------------
(* main() of "prueba scrap kavak.py", lines 152-207: the extractor run on *)
(* its own, without a progress callback                                   *)

\* lines 178-200: client, session, results page, then the extractor
KavakMain(t) ==
    /\ opc = "script"
    /\ task[t].pc = "main"
    /\ UNCHANGED <<queue, emitted>>
    /\ \E out \in {"ok", "raise"} :
         task' = [task EXCEPT ![t] =
           IF out = "ok"
           THEN Called([Session(Client(@, t)) EXCEPT !.pc = "k_list"])
           ELSE Raise(@)]
    /\ UNCHANGED_orch

\* lines 201-207: the results are printed, the session ended
KavakMainEnd(t) ==
    /\ task[t].pc = "main_end"
    /\ UNCHANGED <<queue, emitted>>
    /\ task' = [task EXCEPT ![t] =
         [@ EXCEPT !.session = "ended", !.client_sync = "closed",
                   !.pc = "returned", !.ret = "dict"]]
    /\ UNCHANGED_orch

----------------------------------------------------------------------------
(* extract_meli_details, "prueba scrap meli.py":21-123, driven by the     *)
(* module's main(), lines 125-179                                         *)

\* "prueba scrap meli.py":132
MeliMainMaxPublications == 5

\* lines 150-171: client, session, results page, then the extractor
MeliMain(t) ==
    /\ opc = "meli_script"
    /\ task[t].pc = "m_main"
    /\ UNCHANGED <<queue, emitted>>
    /\ \E out \in {"ok", "raise"} :
         task' = [task EXCEPT ![t] =
           IF out = "ok"
           THEN Called([Session(Client(@, t)) EXCEPT !.pc = "m_list"])
           ELSE Raise(@)]
    /\ UNCHANGED_orch

\* the loop of line 89 starts, or has nothing to go through
ItemPc(i, n) == IF i > n THEN "m_end" ELSE "m_item"

\* lines 41-69: the listing of one page; its exception is swallowed
MeliListing(t) ==
    /\ task[t].pc = "m_list"
    /\ UNCHANGED <<queue, emitted>>
    /\ \/ task' = [task EXCEPT ![t] = Called([@ EXCEPT !.pc = "m_next"])]
       \/ \E raw \in listings :
            LET page_vehicles == ListingVehicles(raw)
                total == task[t].vehicles + page_vehicles.n
                limit == task[t].max_publications
                r == [Called(task[t]) EXCEPT !.raw = raw]
            IN  task' = [task EXCEPT ![t] =
                  CASE page_vehicles.raised -> [r EXCEPT !.pc = "m_next"]
                    [] ~page_vehicles.raised /\ total >= limit ->
                         [r EXCEPT !.vehicles = limit, !.i = 1,
                                   !.pc = ItemPc(1, limit)]
                    [] OTHER ->
                         [r EXCEPT !.vehicles = total, !.pc = "m_next"]]
    /\ UNCHANGED_orch

\* lines 71-86: the pagination check and the click on "Siguiente"; both
\* calls are outside the try of the loop
MeliPagination(t) ==
    /\ task[t].pc = "m_next"
    /\ UNCHANGED <<queue, emitted>>
    /\ \/ task' = [task EXCEPT ![t] = Raise(Called(@))]
       \/ task' = [task EXCEPT ![t] =
               Called([@ EXCEPT !.i = 1, !.pc = ItemPc(1, task[t].vehicles)])]
       \/ /\ task[t].page_number < MaxPages
          /\ \E out \in {"ok", "raise"} :
               task' = [task EXCEPT ![t] =
                 LET x == Execute(Called(@), ExecuteOptions("meli")) IN
                 IF out = "ok"
                 THEN [x EXCEPT !.page_number = @ + 1, !.pc = "m_list"]
                 ELSE Raise(x)]
    /\ UNCHANGED_orch

\* lines 89-121: one vehicle of the list; its exception is swallowed
MeliItem(t) ==
    /\ task[t].pc = "m_item"
    /\ UNCHANGED <<queue, emitted>>
    /\ \E out \in {"no_url", "raise_navigate", "raise_extract", "empty",
                    "item"} :
         LET r == [task[t] EXCEPT !.processed = @ + 1, !.i = @ + 1,
                                  !.pc = ItemPc(task[t].i + 1, task[t].vehicles)]
         IN  task' = [task EXCEPT ![t] =
               CASE out = "no_url" -> r
                 [] out = "item" ->
                      Called([r EXCEPT !.all_extracted_items =
                                          AddItem(@, task[t].i)])
                 [] OTHER -> Called(r)]
    /\ UNCHANGED_orch

\* lines 172-179: the results are printed, the session ended
MeliMainEnd(t) ==
    /\ task[t].pc = "m_end"
    /\ UNCHANGED <<queue, emitted>>
    /\ task' = [task EXCEPT ![t] =
         [@ EXCEPT !.session = "ended", !.client_sync = "closed",
                   !.pc = "returned", !.ret = "dict"]]
    /\ UNCHANGED_orch

----------------------------------------------------------------------------
(* scrape_cars and event_generator, main.py:397-666 *)

\* the key lowercased, its spaces kept
SiteKey_keep_spaces(k) == LowerSeq(k)

\* line 533: site_key.lower().replace(" ", "")
SiteKey(k) == RemoveSpaces(LowerSeq(k))

\* lines 531-535: one task per requested key that names a configured site
RequestedTasks(req) ==
    SelectSeq([j \in 1..Len(req) |-> SiteKey(req[j])],
              LAMBDA k : k \in SITE_URLS)

\* lines 401-402: without the SDK the request fails before the stream exists
ScrapeCars ==
    /\ opc = "request"
    /\ opc' = IF Stagehand THEN "generator" ELSE "http500"
    /\ UNCHANGED <<Stagehand, inFlight, sites, tasks, task, emitted, queue,
                   yielded, errCount, seen, inOrder, finalCount, last,
                   finalStatus, finalData, res_stats, all_site_results,
                   extracted_data, joinedAtFinal, details, listings,
                   nav_instr>>

\* lines 410-535: the first status messages, then the tasks are created
EventGeneratorStart ==
    /\ opc = "generator"
    /\ queue' = Own(<<Status(0, "buscando"), Status(0, "actualizando_cambio"),
                      Status(0, "tipo_de_cambio")>>)
    /\ tasks' = RequestedTasks(sites)
    /\ task' = [t \in 1..Len(tasks') |-> NewTask(tasks'[t])]
    /\ errCount' = [t \in 1..Len(tasks') |-> 0]
    /\ seen' = [t \in 1..Len(tasks') |-> 0]
    /\ emitted' = [t \in 1..Len(tasks') |-> 0]
    /\ opc' = "poll"
    /\ UNCHANGED <<Stagehand, inFlight, sites, yielded, finalCount, last,
                   finalStatus, finalData, res_stats, all_site_results,
                   extracted_data, joinedAtFinal, details, listings,
                   nav_instr, inOrder>>

\* the loop condition without its queue.empty() part
PollContinues_tasks_only == \E t \in Tasks : ~Finished(t)

\* the loop condition without its t.done() part
PollContinues_queue_only == queue # <<>>

\* line 538: any(not t.done() for t in tasks) or not queue.empty()
PollContinues == (\E t \in Tasks : ~Finished(t)) \/ queue # <<>>

\* asyncio.Queue is first in, first out: get returns the oldest item
QueueGet(q) == Head(q)

\* the queue once QueueGet has returned
QueueRest(q) == Tail(q)

\* lines 539-541: one message is taken from the queue and yielded
ConsumerGet ==
    /\ opc = "poll"
    /\ PollContinues
    /\ queue # <<>>
    /\ LET msg == QueueGet(queue) IN
         /\ yielded' = yielded \cup {Unstamp(msg)}
         /\ errCount' = IF msg.type = "error"
                        THEN [errCount EXCEPT ![msg.task] = @ + 1]
                        ELSE errCount
         /\ seen' = IF msg.task \in Tasks
                    THEN [seen EXCEPT ![msg.task] = @ + 1]
                    ELSE seen
         /\ inOrder' = (/\ inOrder
                        /\ msg.task \in Tasks => msg.n = seen[msg.task] + 1)
         /\ last' = msg.type
         /\ queue' = QueueRest(queue)
    /\ UNCHANGED <<Stagehand, inFlight, sites, opc, tasks, task, emitted,
                   finalCount, finalStatus, finalData, res_stats,
                   all_site_results, extracted_data, joinedAtFinal, details,
                   listings, nav_instr>>

\* The consumer of the stream goes away: the generator is cancelled at an
\* await of its loop.  The worker threads are not cancelled, and the queue
\* and the event loop they enqueue through stay alive.
Disconnect ==
    /\ opc = "poll"
    /\ opc' = "disconnected"
    /\ inFlight' = {t \in Tasks : ~Finished(t)}
    /\ UNCHANGED <<Stagehand, sites, tasks, task, emitted, queue, yielded,
                   errCount, seen, inOrder, finalCount, last, finalStatus,
                   finalData, res_stats, all_site_results, extracted_data,
                   joinedAtFinal, details, listings, nav_instr>>

\* line 538: the loop condition is false
ConsumerExit ==
    /\ opc = "poll"
    /\ ~PollContinues
    /\ opc' = "gather"
    /\ UNCHANGED <<Stagehand, inFlight, sites, tasks, task, emitted, queue,
                   yielded, errCount, seen, inOrder, finalCount, last,
                   finalStatus, finalData, res_stats, all_site_results,
                   extracted_data, joinedAtFinal, details, listings,
                   nav_instr>>

\* what a finished task hands to the join
TaskResult(t) ==
    [kind |-> task[t].ret, site |-> task[t].site, task |-> t,
     autos |-> task[t].all_extracted_items]

\* the results in the order in which the tasks returned
GatherResult_as_completed(rs) ==
    [raised |-> FALSE,
     results |-> IF Len(rs) = 2 /\ 2 \in task[1].doneBefore
                 THEN <<rs[2], rs[1]>>
                 ELSE rs]

\* gather without return_exceptions: the first exception is raised
GatherResult_raising(rs) ==
    [raised |-> \E j \in 1..Len(rs) : rs[j].kind = "exception",
     results |-> rs]

\* line 546: asyncio.gather(*tasks, return_exceptions=True)
GatherResult(rs) == [raised |-> FALSE, results |-> rs]

\* the final events one run yields, with a second one from the handler
FinalEvents_twice(status) == <<status, "error">>

\* lines 648-664: the final event of the run
FinalEvents(status) == <<status>>

\* the final event is yielded
YieldFinal(status) ==
    LET evs == FinalEvents(status) IN
    /\ finalCount' = finalCount + Len(evs)
    /\ finalStatus' = evs[Len(evs)]
    /\ finalData' = IF status = "success" THEN extracted_data ELSE <<>>
    /\ res_stats' = [count |-> IF status = "success"
                               THEN Len(extracted_data) ELSE 0]
    /\ last' = "final"
    /\ joinedAtFinal' = \A t \in Tasks : Finished(t)
    /\ opc' = "done"

\* line 546: the join
Gather ==
    /\ opc = "gather"
    /\ \A t \in Tasks : Finished(t)
    /\ LET g == GatherResult([t \in Tasks |-> TaskResult(t)]) IN
         IF g.raised
         THEN /\ YieldFinal("error")
              /\ UNCHANGED all_site_results
         ELSE /\ all_site_results' = g.results
              /\ opc' = "aggregate"
              /\ UNCHANGED <<finalCount, finalStatus, finalData, res_stats,
                             last, joinedAtFinal>>
    /\ UNCHANGED <<Stagehand, inFlight, sites, tasks, task, emitted, queue,
                   yielded, errCount, seen, inOrder, extracted_data, details,
                   listings, nav_instr>>

\* line 556, 558-561: the results that carry items
HasItems(res) == res.kind = "dict" /\ res.autos # <<>>

\* lines 564-608: the records of one site
SiteRecords(res) ==
    [j \in 1..Len(res.autos) |->
       [site |-> res.site, task |-> res.task, id |-> res.autos[j]]]

\* lines 562-565, 614: the messages logged for one site
SiteMessages(res) ==
    <<Status(0, "analizando")>>
    \o [j \in 1..Len(res.autos) |-> Status(0, "procesando_publicacion")]
    \o <<Status(0, "normalizados")>>

RECURSIVE AggregateData(_)
\* lines 551-608: extracted_data, in the order of the tasks
AggregateData(rs) ==
    IF rs = <<>> THEN <<>>
    ELSE (IF HasItems(Head(rs)) THEN SiteRecords(Head(rs)) ELSE <<>>)
         \o AggregateData(Tail(rs))

RECURSIVE AggregateMessages(_)
\* lines 562-565, 614: the messages logged while merging
AggregateMessages(rs) ==
    IF rs = <<>> THEN <<>>
    ELSE (IF HasItems(Head(rs)) THEN SiteMessages(Head(rs)) ELSE <<>>)
         \o AggregateMessages(Tail(rs))

\* lines 548-614: the results of the sites are normalised and merged
Aggregate ==
    /\ opc = "aggregate"
    /\ queue' = queue \o Own(<<Status(0, "procesando_datos")>>
                               \o AggregateMessages(all_site_results))
    /\ extracted_data' = AggregateData(all_site_results)
    /\ opc' = "final"
    /\ UNCHANGED <<Stagehand, inFlight, sites, tasks, task, emitted, yielded,
                   errCount, seen, inOrder, finalCount, last, finalStatus,
                   finalData, res_stats, all_site_results, joinedAtFinal,
                   details, listings, nav_instr>>

\* main.py:290-298: what save_to_db reports through progress_callback
SaveMessages ==
    { <<>>, <<Status(0, "valuacion_registrada")>>,
      <<Status(0, "patente_no_encontrada")>> }

\* lines 616-664: persistence and the final event; an exception of the
\* persistence (file or serialisation) reaches the handler of line 661
Final ==
    /\ opc = "final"
    /\ IF extracted_data # <<>>
       THEN \/ \E saved \in SaveMessages :
                 /\ queue' = queue \o Own(saved \o <<Status(0, "finalizados")>>)
                 /\ YieldFinal("success")
            \/ /\ UNCHANGED queue                  \* lines 621-628 raise
               /\ YieldFinal("error")
       ELSE /\ UNCHANGED queue
            /\ YieldFinal("empty")
    /\ UNCHANGED <<Stagehand, inFlight, sites, tasks, task, emitted, yielded,
                   errCount, seen, inOrder, all_site_results, extracted_data,
                   details, listings, nav_instr>>

----------------------------------------------------------------------------
(* The specification *)

\* the state when scrape_cars is called with request.sites in requests,
\* for an agent whose listing extraction returns one of results
AtRequest(requests, results) ==
    /\ sites \in requests
    /\ opc = "request"
    /\ tasks = <<>>
    /\ task = <<>>
    /\ queue = <<>>
    /\ yielded = {}
    /\ errCount = <<>>
    /\ finalCount = 0
    /\ last = "none"
    /\ finalStatus = "none"
    /\ finalData = <<>>
    /\ res_stats = [count |-> 0]
    /\ all_site_results = <<>>
    /\ extracted_data = <<>>
    /\ joinedAtFinal = FALSE
    /\ details = ServerDetails
    /\ listings = results
    /\ seen = <<>>
    /\ inOrder = TRUE
    /\ emitted = <<>>
    /\ inFlight = {}

Init ==
    /\ Stagehand \in BOOLEAN
    /\ nav_instr \in NavInstrs
    /\ AtRequest(RequestSites, ServerListings)

\* The runs explored keep at most MaxQueue events waiting for a consumer
\* that is reading: a step of a worker that would add to a longer backlog is
\* left out of them.  SpecBacklog explores the runs without this limit.
QueueBounded ==
    opc = "disconnected" \/ queue' = queue \/ Len(queue') <= MaxQueue

Next ==
    \/ ScrapeCars
    \/ EventGeneratorStart
    \/ \E t \in Tasks : StartAgent(t) /\ QueueBounded
    \/ \E t \in Tasks : NavigationExecute(t) /\ QueueBounded
    \/ \E t \in Tasks : CheckResults(t) /\ QueueBounded
    \/ \E t \in Tasks : CurrentUrl(t) /\ QueueBounded
    \/ \E t \in Tasks : CallExtractor(t) /\ QueueBounded
    \/ \E t \in Tasks : KavakListing(t) /\ QueueBounded
    \/ \E t \in Tasks : KavakItem(t) /\ QueueBounded
    \/ \E t \in Tasks : KavakAttempt(t) /\ QueueBounded
    \/ \E t \in Tasks : EndSession(t) /\ QueueBounded
    \/ ConsumerGet
    \/ ConsumerExit
    \/ Gather
    \/ Aggregate
    \/ Final

Spec == Init /\ [][Next]_vars

\* the server with short listings
ShortListings == { RawObject("vehicles", n) : n \in 0..MaxShortListing }

InitShort ==
    /\ Stagehand \in BOOLEAN
    /\ nav_instr \in NavInstrs
    /\ AtRequest(RequestSites, ShortListings)

\* The generator is a coroutine of the event loop: while the consumer reads
\* the stream, a step of it that stays possible is taken.  Nothing is
\* assumed of the worker threads, whose agent calls may never return.
Fairness ==
    /\ WF_vars(ScrapeCars)
    /\ WF_vars(EventGeneratorStart)
    /\ WF_vars(ConsumerGet)
    /\ WF_vars(ConsumerExit)
    /\ WF_vars(Gather)
    /\ WF_vars(Aggregate)
    /\ WF_vars(Final)

SpecLive == InitShort /\ [][Next]_vars /\ Fairness

\* the server with a consumer that may go away
InitDisconnect ==
    /\ Stagehand = TRUE
    /\ nav_instr = [kavak |-> None, meli |-> None]
    /\ AtRequest({ <<ReqKavak, ReqMeli>>, <<ReqKavak>> }, ShortListings)

NextDisconnect == Next \/ Disconnect

SpecDisconnect == InitDisconnect /\ [][NextDisconnect]_vars

\* the server with requests that name no site, a site twice, or a site
\* beside a key that is not configured
InitSites ==
    /\ Stagehand = TRUE
    /\ nav_instr = [kavak |-> None, meli |-> None]
    /\ AtRequest(RequestSites \cup MoreRequestSites, ShortListings)

SpecSites == InitSites /\ [][Next]_vars

\* the Kavak extractor driven by its module's main()
InitKavak ==
    /\ Stagehand = TRUE
    /\ sites = <<>>
    /\ opc = "script"
    /\ tasks = <<kavak>>
    /\ task = <<[NewTask(kavak) EXCEPT
                   !.pc = "main",
                   !.progress_callback = FALSE,
                   !.max_publications = MainMaxPublications]>>
    /\ queue = <<>>
    /\ yielded = {}
    /\ errCount = <<0>>
    /\ finalCount = 0
    /\ last = "none"
    /\ finalStatus = "none"
    /\ finalData = <<>>
    /\ res_stats = [count |-> 0]
    /\ all_site_results = <<>>
    /\ extracted_data = <<>>
    /\ joinedAtFinal = FALSE
    /\ details = ScriptDetails
    /\ listings = ScriptListings
    /\ nav_instr = [kavak |-> None, meli |-> None]
    /\ seen = <<0>>
    /\ inOrder = TRUE
    /\ emitted = <<0>>
    /\ inFlight = {}

\* main() gives the extractor no callback, so QueueBounded leaves out no
\* step of it: it only keeps the server's runs of SpecAll within the limit
NextKavak ==
    \/ \E t \in Tasks : KavakMain(t)
    \/ \E t \in Tasks : KavakListing(t) /\ QueueBounded
    \/ \E t \in Tasks : KavakItem(t) /\ QueueBounded
    \/ \E t \in Tasks : KavakAttempt(t) /\ QueueBounded
    \/ \E t \in Tasks : KavakMainEnd(t)

SpecKavak == InitKavak /\ [][NextKavak]_vars

\* the Mercado Libre extractor driven by its module's main()
InitMeli ==
    /\ Stagehand = TRUE
    /\ sites = <<>>
    /\ opc = "meli_script"
    /\ tasks = <<mercadolibre>>
    /\ task = <<[NewTask(mercadolibre) EXCEPT
                   !.pc = "m_main",
                   !.progress_callback = FALSE,
                   !.max_publications = MeliMainMaxPublications]>>
    /\ queue = <<>>
    /\ yielded = {}
    /\ errCount = <<0>>
    /\ finalCount = 0
    /\ last = "none"
    /\ finalStatus = "none"
    /\ finalData = <<>>
    /\ res_stats = [count |-> 0]
    /\ all_site_results = <<>>
    /\ extracted_data = <<>>
    /\ joinedAtFinal = FALSE
    /\ details = {}
    /\ listings = { RawObject("vehicles", n) : n \in 0..MaxPageSize }
    /\ nav_instr = [kavak |-> None, meli |-> None]
    /\ seen = <<0>>
    /\ inOrder = TRUE
    /\ emitted = <<0>>
    /\ inFlight = {}

NextMeli ==
    \/ \E t \in Tasks : MeliMain(t)
    \/ \E t \in Tasks : MeliListing(t)
    \/ \E t \in Tasks : MeliPagination(t)
    \/ \E t \in Tasks : MeliItem(t)
    \/ \E t \in Tasks : MeliMainEnd(t)

SpecMeli == InitMeli /\ [][NextMeli]_vars

\* every program of the repository that issues execute calls: the server,
\* with short listings, and the two extractor modules run on their own
InitAll == InitShort \/ InitKavak \/ InitMeli

NextAll == Next \/ NextKavak \/ NextMeli

SpecAll == InitAll /\ [][NextAll]_vars

----------------------------------------------------------------------------
(* Properties *)

Failed(t) == task[t].ret \in {"exception", "ERROR"}

Y2021 == <<"2", "0", "2", "1">>

Km136000 == <<"1", "3", "6", "0", "0", "0">>

Km136000Punct == <<"1", "3", "6", ",", "0", "0", "0">>

Km136000Units == <<"1", "3", "6", ",", "0", "0", "0", " ", "k", "m">>

\* the vehicle the latest attempt of task t was made for
AttemptedVehicle(t) ==
    IF task[t].pc = "k_attempt" THEN task[t].i ELSE task[t].i - 1

\* the first attempt for a vehicle whose summary is year 2021, km 136000
\* has extracted a detail
FirstAttemptOn136000(t) ==
    /\ task[t].tries = 1
    /\ task[t].detail # NoDetail
    /\ AttemptedVehicle(t) >= 1
    /\ ListingYear(AttemptedVehicle(t)) = Y2021
    /\ ListingKm(AttemptedVehicle(t)) = Km136000

\* C1: once a site task has raised, every other site task still runs to its
\* end, the join collects the value each task returned, and the aggregation
\* is made with the items of every task that returned some
C1_SiblingsUnaffected ==
    (opc \in {"aggregate", "final", "done"}
        /\ \E t \in Tasks : task[t].ret = "exception")
    => /\ \A u \in Tasks : Finished(u)
       /\ Len(all_site_results) = Len(tasks)
       /\ \A u \in Tasks : all_site_results[u] = TaskResult(u)
       /\ opc \in {"final", "done"} =>
            \A u \in Tasks : \A j \in 1..Len(task[u].all_extracted_items) :
               task[u].ret = "dict" =>
                 \E k \in 1..Len(extracted_data) :
                    extracted_data[k] =
                      [site |-> task[u].site, task |-> u,
                       id |-> task[u].all_extracted_items[j]]

C1_Witness ==
    /\ opc = "done"
    /\ finalStatus = "success"
    /\ \E t, u \in Tasks :
         /\ task[t].ret = "exception"
         /\ task[u].ret = "dict"
         /\ task[u].all_extracted_items # <<>>

\* C2: when the final event is yielded, exactly one error event has been
\* yielded for every site task that ended because of an error
C2_OneErrorEventPerFailedTask ==
    finalCount >= 1 => \A t \in Tasks : Failed(t) => errCount[t] = 1

\* C3: a site task that has ended has ended the session it started and
\* closed its client
C3_SessionReleased ==
    \A t \in Tasks :
       (Finished(t) /\ task[t].session # "none")
       => (task[t].session = "ended" /\ task[t].client_sync = "closed")

\* C4: a run of the stream yields exactly one final event, nothing after
\* it, and only when every site task has finished
C4_OneFinalEvent ==
    /\ finalCount <= 1
    /\ opc = "done" => finalCount = 1
    /\ finalCount >= 1 => (opc = "done" /\ last = "final" /\ joinedAtFinal)

C4_Witness ==
    /\ finalCount = 1
    /\ Len(tasks) = 2
    /\ \E m \in yielded : m.type = "status" /\ m.task # 0

\* C5: the status of the final event is success, empty or error; error
\* only when no browser agent is available and no task was started; empty
\* only when no site task failed
C5_FinalStatus ==
    finalCount >= 1 =>
       /\ finalStatus \in {"success", "empty", "error"}
       /\ finalStatus = "error" => (~Stagehand /\ tasks = <<>>)
       /\ finalStatus = "empty" => \A t \in Tasks : ~Failed(t)

\* C6: no more than 3 attempts are made for one vehicle, whether they end
\* in a mismatch or in an exception
C6_AtMostThreeAttempts == \A t \in Tasks : task[t].tries <= 3

C6_Witness ==
    \E t \in Tasks :
       /\ task[t].tries = 3
       /\ task[t].detail = NoDetail           \* the third attempt raised
       /\ task[t].pc = "k_item"
       /\ (task[t].i - 1) \in task[t].nomatch

\* C7: when the extractor has returned, a vehicle whose detail matched in
\* none of its attempts is not in the output, every vehicle of the listing
\* was processed, and the output holds every other vehicle, in order
C7_UnmatchedDropped ==
    \A t \in Tasks :
       LET r == task[t] IN
       /\ r.nomatch # {} => r.pc # "raised"
       /\ (r.pc \in {"end", "main_end", "returned"} /\ r.vehicles > 0) =>
            /\ r.processed = r.vehicles
            /\ {r.all_extracted_items[j] :
                   j \in 1..Len(r.all_extracted_items)}
                 = (1..r.vehicles) \ r.nomatch
            /\ \A j \in 1..(Len(r.all_extracted_items) - 1) :
                  r.all_extracted_items[j] < r.all_extracted_items[j + 1]

C7_Witness ==
    \E t \in Tasks :
       /\ task[t].pc = "returned"
       /\ task[t].ret = "dict"
       /\ 1 \in task[t].nomatch
       /\ task[t].all_extracted_items = <<2, 3>>

\* C8 as stated: a detail of year 2021 and km "136,000 km" is accepted on
\* the first attempt for a summary of year 2021 and km 136000
C8_UnitsStripped ==
    \A t \in Tasks :
       (FirstAttemptOn136000(t)
          /\ task[t].detail.year = Y2021
          /\ task[t].detail.km = Km136000Units)
       => task[t].detail.accepted

\* C8 amended: the normalisation removes punctuation and spaces and keeps
\* letters: for a summary of year 2021 and km 136000, a detail of year 2021
\* and km "136,000" is accepted on the first attempt, and a detail whose
\* km is "136,000 km" is not
C8_PunctuationStripped ==
    \A t \in Tasks :
       (FirstAttemptOn136000(t) /\ task[t].detail.year = Y2021) =>
          /\ task[t].detail.km = Km136000Punct => task[t].detail.accepted
          /\ task[t].detail.km = Km136000Units => ~task[t].detail.accepted

C8_Witness ==
    \E t \in Tasks :
       /\ FirstAttemptOn136000(t)
       /\ task[t].detail.year = Y2021
       /\ task[t].detail.km = Km136000Punct
       /\ task[t].detail.accepted
       /\ task[t].all_extracted_items = <<1>>

\* C9: detail processing begins for no more vehicles than max_publications
C9_LimitRespected ==
    \A t \in Tasks : task[t].processed <= task[t].max_publications

\* C10: once the validation has reported has_results = false the task has
\* returned NO_RESULTS with no items, its stop message is on its way to the
\* stream, and no navigate, execute or extract call followed
C10_ValidationStops ==
    \A t \in Tasks :
       task[t].validated = "false" =>
          /\ task[t].pc = "returned"
          /\ task[t].ret = "NO_RESULTS"
          /\ task[t].all_extracted_items = <<>>
          /\ ~task[t].callAfterStop
          /\ \/ Status(t, "sin_resultados") \in yielded
             \/ \E j \in 1..Len(queue) :
                  Unstamp(queue[j]) = Status(t, "sin_resultados")

C10_Witness ==
    \E t \in Tasks :
       /\ task[t].validated = "false"
       /\ task[t].ret = "NO_RESULTS"
       /\ Status(t, "sin_resultados") \in yielded
       /\ opc = "done"

\* the template has a replacement field whose name line 344 does not bind
Unbound(template) ==
    \E j \in 1..Len(template) :
      template[j].kind = "field" /\ template[j].v \notin DOMAIN FormatArgs

\* C11: a navigation template with a placeholder that is not bound costs
\* the task only that step: once its site is opened the task does not fail
\* before the navigation execute is issued; and with every placeholder
\* bound the instruction built for the agent is the template with the
\* placeholders replaced by the request's values.
C11_UnboundPlaceholderSkipped ==
    \A t \in Tasks :
      /\ (task[t].navigated /\ Unbound(site_nav_instr(task[t].site)))
            => (task[t].pc # "raised" \/ task[t].max_steps # {})
      /\ (task[t].max_steps # {}
            /\ site_nav_instr(task[t].site) = TemplateBound)
            => task[t].instruction = <<"Buscar ", "Toyota", " ", "Corolla">>

\* the events of task t waiting in the first j places of the queue
Pending(t, j) == Cardinality({k \in 1..j : queue[k].task = t})

\* C12: every progress event a site task enqueued is yielded exactly once
\* and before the final event: at any time the events a task has enqueued
\* are those yielded so far plus those still waiting, and once the final
\* event is out all of them have been yielded.
C12_EveryEventYieldedOnce ==
    \A t \in Tasks :
      /\ seen[t] + Pending(t, Len(queue)) = emitted[t]
      /\ finalCount >= 1 => seen[t] = emitted[t]

\* both sites have enqueued events and the final event is out
C12_Witness ==
    /\ finalCount = 1
    /\ Len(tasks) = 2
    /\ \A t \in Tasks : emitted[t] >= 3 /\ seen[t] = emitted[t]

\* C13: the events of one site task reach the stream in the order the task
\* emitted them: each yielded event was the next one of its task, and the
\* events of a task waiting in the queue follow in emission order.
C13_PerSiteOrder ==
    /\ inOrder
    /\ \A j \in 1..Len(queue) :
         queue[j].task \in Tasks
           => queue[j].n = seen[queue[j].task] + Pending(queue[j].task, j)

\* two sites produced events concurrently and several of each were yielded
C13_Witness ==
    /\ Len(tasks) = 2
    /\ \A t \in Tasks : seen[t] >= 3
    /\ \E t \in Tasks : ~Finished(t)
    /\ \E j \in 1..Len(queue) : queue[j].task \in Tasks

\* the tasks exist and every one of them has returned or raised
AllTasksFinished ==
    /\ opc \in {"poll", "gather", "aggregate", "final", "done"}
    /\ \A t \in Tasks : Finished(t)

\* C14: once every site task has finished the poll loop exits and the
\* final event is emitted; and the loop is never left while a task is
\* unfinished or an event is waiting in the queue.
C14_PollLoopTerminates ==
    /\ AllTasksFinished ~> (opc # "poll")
    /\ AllTasksFinished ~> (finalCount = 1)
    /\ [][(opc = "poll" /\ opc' # "poll")
            => ((\A t \in Tasks : Finished(t)) /\ queue = <<>>)]_vars

\* the loop has just been left: two tasks, each finished after emitting
C14_Witness ==
    /\ opc = "gather"
    /\ Len(tasks) = 2
    /\ \A t \in Tasks : Finished(t) /\ emitted[t] >= 1
    /\ \E t \in Tasks : task[t].ret = "dict"
    /\ queue = <<>>

\* C15: every execute call, of the navigation phase and of each site's
\* detail extractor, carries a finite positive max_steps.
C15_MaxStepsBounded ==
    \A t \in Tasks : \A m \in task[t].max_steps : m \in 1..NavMaxSteps

\* a server task has issued the navigation execute and the Kavak
\* extractor's execute
C15_Witness ==
    \E t \in Tasks :
      /\ opc = "poll"
      /\ task[t].max_steps = {NavMaxSteps, KavakMaxSteps}
      /\ task[t].pc = "returned"

\* the Mercado Libre extractor has clicked "Siguiente"
C15_MeliExecuted ==
    \E t \in Tasks : opc = "meli_script" /\ task[t].max_steps = {MeliMaxSteps}

\* the keys under which a result may hold its list, in the order scanned
ContainerKeys == <<"vehicles", "autos", "items", "results", "data">>

\* the number of records of a raw result under the precedence: a string
\* is parsed, a list is used as is, an object yields the list under its
\* container key, any other object is one record
UnwrapLen(raw) ==
    CASE raw.kind \in {"string", "list"} -> raw.n
      [] raw.kind = "object"
           /\ \E j \in 1..Len(ContainerKeys) : ContainerKeys[j] = raw.key ->
           raw.n
      [] OTHER -> 1

\* C16: the raw output of the listing extraction becomes the record list
\* given by the unwrap precedence, whatever its shape: the extractor goes
\* on with as many vehicles as the precedence finds in the output.
C16_UnwrapPrecedence ==
    \A t \in Tasks :
      task[t].raw # NoRaw => task[t].vehicles = UnwrapLen(task[t].raw)

\* C17: a site task that passed the validation and completes without any
\* record returns the same outcome as the validation early exit,
\* NO_RESULTS, and not a result carrying a list.
C17_ZeroRecordsIsNoResults ==
    \A t \in Tasks :
      (/\ opc \notin {"script", "meli_script"}
       /\ task[t].pc = "returned"
       /\ task[t].validated = "true"
       /\ task[t].ret # "ERROR"
       /\ task[t].all_extracted_items = <<>>)
        => task[t].ret = "NO_RESULTS"

\* the site tasks that completed with records
WithRecords == {t \in Tasks : task[t].ret = "dict"
                                /\ task[t].all_extracted_items # <<>>}

\* the records of the tasks that completed with records
RecordsOfSites ==
    UNION { { [site |-> task[t].site, task |-> t,
               id |-> task[t].all_extracted_items[k]]
               : k \in 1..Len(task[t].all_extracted_items) }
            : t \in WithRecords }

\* C18: when some site task completed with records the final event has
\* status success, its data holds each record of the sites that completed
\* with records once and nothing else, and stats.count is the number of
\* records in data.
C18_SuccessData ==
    (finalCount >= 1 /\ WithRecords # {}) =>
       /\ finalStatus = "success"
       /\ {finalData[j] : j \in 1..Len(finalData)} = RecordsOfSites
       /\ Len(finalData) = Cardinality(RecordsOfSites)
       /\ res_stats.count = Len(finalData)

\* the part of C18 that holds: a final event of status success carries
\* the records of the sites that completed with records, each once
C18_DataWhenSuccess ==
    (finalCount >= 1 /\ finalStatus = "success") =>
       /\ WithRecords # {}
       /\ {finalData[j] : j \in 1..Len(finalData)} = RecordsOfSites
       /\ Len(finalData) = Cardinality(RecordsOfSites)
       /\ res_stats.count = Len(finalData)

\* a step of run_site_scraping, extractor included, for task t
TaskStep(t) ==
    \/ StartAgent(t)
    \/ NavigationExecute(t)
    \/ CheckResults(t)
    \/ CurrentUrl(t)
    \/ CallExtractor(t)
    \/ KavakListing(t)
    \/ KavakItem(t)
    \/ KavakAttempt(t)
    \/ EndSession(t)

\* C19: once the consumer has gone away, a task that was in flight is
\* never held up by its enqueues, and when it has finished the session
\* it started is ended and its client closed.
C19_RunsOnAfterDisconnect ==
    opc = "disconnected" =>
      \A t \in inFlight :
        /\ ~Finished(t) => ENABLED TaskStep(t)
        /\ (Finished(t) /\ task[t].session # "none")
              => (task[t].session = "ended" /\ task[t].client_sync = "closed")

\* the part of C19 that holds: the task is never held up
C19_NeverBlocked ==
    opc = "disconnected" =>
      \A t \in inFlight : ~Finished(t) => ENABLED TaskStep(t)

\* the configured site a requested key names, <<>> when it names none
Named(key) ==
    CASE key \in {ReqKavak, ReqKavakLower} -> kavak
      [] key = ReqMeli -> mercadolibre
      [] OTHER -> <<>>

\* the tasks exist
TasksCreated == opc \in {"poll", "gather", "aggregate", "final", "done"}

\* the requested keys that name a configured site
NamingKeys == {j \in 1..Len(sites) : Named(sites[j]) # <<>>}

C20_NoSiteNamed ==
    /\ sites = <<ReqOther, ReqOther>>
    /\ tasks = <<>>
    /\ finalCount = 1
    /\ finalStatus = "empty"

----------------------------------------------------------------------------
(* The reconciler of extract_kavak_details, lines 84-148 *)

\* the positions of the listing the output list holds are all different
NoDuplicates(items) ==
    \A a, b \in 1..Len(items) : items[a] = items[b] => a = b

\* a step of task t that changes the output list appends the vehicle in
\* hand, after a detail whose year and km equal the summary's, and leaves
\* that vehicle
AppendsOnMatch(t) ==
    LET r == task[t]
        q == task'[t]
    IN  q.all_extracted_items # r.all_extracted_items =>
          /\ r.pc = "k_attempt"
          /\ q.all_extracted_items = Append(r.all_extracted_items, r.i)
          /\ norm(ListingYear(r.i)) = norm(q.detail.year)
          /\ norm(ListingKm(r.i)) = norm(q.detail.km)
          /\ q.i = r.i + 1
          /\ q.pc # "k_attempt"

\* a step of task t that ends an attempt on a matching detail appends
MatchAppends(t) ==
    LET r == task[t]
        q == task'[t]
    IN  (r.pc = "k_attempt" /\ q.tries = r.tries + 1 /\ q.detail.accepted) =>
          q.all_extracted_items = Append(r.all_extracted_items, r.i)

C22_OrderedAndFirstNavigateOmitted ==
    \A t \in 1..Len(task) : task[t].ordered /\ ~task[t].renavigated

----------------------------------------------------------------------------
(* The item loops of the two detail extractors *)

\* the two extractor modules, each driven by its own main()
InitScripts == InitKavak \/ InitMeli

NextScripts == NextKavak \/ NextMeli

SpecScripts == InitScripts /\ [][NextScripts]_vars

\* the item loops: "prueba scrap kavak.py":77-148, "prueba scrap meli.py":89-121
InItemLoop(r) == r.pc \in {"k_item", "k_attempt", "m_item"}

\* positions of the listing in increasing order, all of them left behind
IncreasingBelow(items, i) ==
    /\ \A a, b \in 1..Len(items) : a < b => items[a] < items[b]
    /\ \A a \in 1..Len(items) : items[a] \in 1..(i - 1)

\* a step inside the item loop stays on the vehicle in hand or goes to the
\* one after it, and adds to the output at most the vehicle in hand, last
OneAtATime(t) ==
    LET r == task[t]
        q == task'[t]
    IN  InItemLoop(r) =>
          /\ q.i \in {r.i, r.i + 1}
          /\ q.processed \in {r.processed, r.processed + 1}
          /\ q.processed \in {q.i - 1, q.i}
          /\ \/ q.all_extracted_items = r.all_extracted_items
             \/ /\ q.all_extracted_items = Append(r.all_extracted_items, r.i)
                /\ q.i = r.i + 1

\* C23: an extractor goes through the listing one vehicle at a time in the
\* order of the listing, the next vehicle starting only when the one in hand
\* was accepted or dropped, and its output list holds positions of the
\* listing in increasing order.
C23_ListingOrderKept ==
    /\ [](\A t \in 1..Len(task) :
            IncreasingBelow(task[t].all_extracted_items, task[t].i))
    /\ [][Len(task') = Len(task) => \A t \in 1..Len(task) : OneAtATime(t)]_vars

\* the second of three vehicles was dropped, the other two are in the output
C23_Witness ==
    \E t \in 1..Len(task) :
      /\ task[t].pc = "returned"
      /\ task[t].processed = 3
      /\ task[t].all_extracted_items = <<1, 3>>

\* Kavak: the first vehicle was dropped after three attempts, the second kept
C23_KavakSecondKept ==
    \E t \in 1..Len(task) :
      /\ task[t].site = kavak
      /\ task[t].nomatch = {1}
      /\ task[t].all_extracted_items = <<2>>

\* the extractor has left its item loop by the end of the for statement
LoopDone(r) ==
    /\ r.pc \in {"main_end", "m_end", "end", "returned"}
    /\ r.vehicles > 0

\* a step that starts inside the item loop does not end in an exception
\* that has left the extractor
CaughtInLoop(t) == InItemLoop(task[t]) => task'[t].pc # "raised"

\* C24: an exception of an agent call made while a listing item is being
\* processed does not leave the extractor, and the items after it are
\* processed: the item loop ends only when every item of the listing has been
\* gone through.
C24_ItemExceptionsCaught ==
    /\ [](\A t \in 1..Len(task) :
            LoopDone(task[t]) => task[t].processed = task[t].vehicles)
    /\ [][Len(task') = Len(task) => \A t \in 1..Len(task) : CaughtInLoop(t)]_vars

\* Kavak, two vehicles: none of the six attempts got past its navigate (no
\* execute was ever issued), and the extractor returned with both processed
C24_Witness ==
    \E t \in 1..Len(task) :
      /\ task[t].site = kavak
      /\ task[t].pc = "returned"
      /\ task[t].vehicles = 2
      /\ task[t].processed = 2
      /\ task[t].tries = 3
      /\ task[t].max_steps = {}

----------------------------------------------------------------------------
(* What the site tasks share *)

\* the task has a session and has issued agent calls
HasCalled(t) == task[t].sess_id # 0 /\ task[t].calledOn # {}

\* queue q is queue p with events added at its end
Extends(q, p) == Len(q) >= Len(p) /\ SubSeq(q, 1, Len(p)) = p

\* a step that changes the record of task t changes no other task's record
\* and, of the state of the generator, only adds events to the queue
WritesOwnAndQueue(t) ==
    task'[t] # task[t] =>
      /\ \A u \in 1..Len(task) : u # t => task'[u] = task[u]
      /\ Extends(queue', queue)
      /\ UNCHANGED <<all_site_results, extracted_data, finalData, res_stats,
                     yielded, tasks, sites, nav_instr, finalStatus, last>>

\* C25: every site task builds a client and a session of its own and issues
\* its agent calls on that session only, so no session gets calls of two
\* tasks; a step of a site task writes its own state and appends to the
\* progress queue, nothing else.
C25_OwnSessionSharedQueue ==
    /\ [](\A t, u \in 1..Len(task) :
            /\ task[t].calledOn \subseteq {task[t].sess_id}
            /\ task[t].session # "none" => task[t].sess_id # 0
            /\ t # u => task[t].calledOn \cap task[u].calledOn = {}
            /\ (t # u /\ task[t].client # 0) => task[t].client # task[u].client)
    /\ [][Len(task') = Len(task) =>
            \A t \in 1..Len(task) : WritesOwnAndQueue(t)]_vars

\* two tasks are running and each has issued agent calls on its session
C25_Witness ==
    /\ Len(task) = 2
    /\ HasCalled(1) /\ HasCalled(2)
    /\ ~Finished(1) /\ ~Finished(2)

----------------------------------------------------------------------------
(* The progress queue under a consumer that does not keep up *)

\* the server with one Kavak task and a short listing
InitBacklog ==
    /\ Stagehand = TRUE
    /\ nav_instr = [kavak |-> None, meli |-> None]
    /\ AtRequest({ <<ReqKavak>> }, ShortListings)

\* the steps of Next, with no limit on the events waiting in the queue
NextBacklog ==
    \/ ScrapeCars
    \/ EventGeneratorStart
    \/ \E t \in Tasks : StartAgent(t)
    \/ \E t \in Tasks : NavigationExecute(t)
    \/ \E t \in Tasks : CheckResults(t)
    \/ \E t \in Tasks : CurrentUrl(t)
    \/ \E t \in Tasks : CallExtractor(t)
    \/ \E t \in Tasks : KavakListing(t)
    \/ \E t \in Tasks : KavakItem(t)
    \/ \E t \in Tasks : KavakAttempt(t)
    \/ \E t \in Tasks : EndSession(t)
    \/ ConsumerGet
    \/ ConsumerExit
    \/ Gather
    \/ Aggregate
    \/ Final

SpecBacklog == InitBacklog /\ [][NextBacklog]_vars

\* C26: a site task that has not finished can always take its next step,
\* however many events wait in the queue and whatever the consumer is doing:
\* the enqueue of its progress events never makes it wait.
C26_EnqueueNeverWaits ==
    \A t \in 1..Len(task) : ~Finished(t) => ENABLED TaskStep(t)

\* the task ran to its end, with three attempts that each enqueued three
\* events, while the consumer took nothing from the queue
C26_Witness ==
    /\ opc = "poll"
    /\ yielded = {}
    /\ Len(queue) > 2 * MaxQueue
    /\ \E t \in 1..Len(task) : task[t].pc = "returned" /\ task[t].tries = 3

----------------------------------------------------------------------------
(* The messages logged after the join *)

\* C27: when the final event has been yielded, no status message that
\* log_status issued is still waiting in the queue: each one, those of the
\* aggregation and of the persistence included, was yielded before it.
C27_StatusYieldedBeforeFinal ==
    finalCount > 0 => \A j \in 1..Len(queue) : queue[j].type # "status"

----------------------------------------------------------------------------
(* The call of the site's detail extractor, main.py:506-527 *)

\* C28: for a task of a supported site whose validation reported results,
\* the call of the site's detail extractor is accepted (it raises nothing at
\* the call), and a task that returns after it returns the extractor's items
\* in a result dict.
C28_ExtractorCallAccepted ==
    /\ [](\A t \in 1..Len(task) :
            (task[t].validated = "true" /\ task[t].pc = "returned") =>
              task[t].ret = "dict")
    /\ [][Len(task') = Len(task) =>
            \A t \in 1..Len(task) :
              (task[t].pc = "details" /\ task[t].site \in SITE_URLS) =>
                task'[t].pc # "raised"]_vars

----------------------------------------------------------------------------
(* Termination of the listing collection, "prueba scrap meli.py":40-86 *)

\* C29: the listing collection issues a bounded number of agent calls
\* whatever the agent answers: while no page has yielded a vehicle (the
\* listing extraction raised or returned none) and a next page is reported
\* each time, the pagination loop still stops before page MaxPages, the
\* last page the runs explored go to.
C29_PaginationBounded ==
    \A t \in 1..Len(task) :
      task[t].vehicles = 0 => task[t].page_number < MaxPages

----------------------------------------------------------------------------
(* The order of the records of the final event *)

\* the server asked for the same site under two keys, each listing holding
\* one vehicle: two tasks that can both come back with a record
InitOrder ==
    /\ Stagehand = TRUE
    /\ nav_instr = [kavak |-> None, meli |-> None]
    /\ AtRequest({ <<ReqKavak, ReqKavakLower>> },
                 { RawObject("vehicles", 1) })

SpecOrder == InitOrder /\ [][Next]_vars

\* the records of task t as its extractor returned them
OwnRecords(t) ==
    IF task[t].ret = "dict"
    THEN [j \in 1..Len(task[t].all_extracted_items) |->
            [site |-> task[t].site, task |-> t,
             id |-> task[t].all_extracted_items[j]]]
    ELSE <<>>

RECURSIVE FromTask(_)
\* the records of the tasks t, t + 1, ... one task after the other, in the
\* order in which the request named their sites
FromTask(t) ==
    IF t > Len(task) THEN <<>> ELSE OwnRecords(t) \o FromTask(t + 1)

\* C30: the data of a final event of status success is the records of the
\* first requested site in that site's order, then those of the second, and
\* so on: a function of the per-site results alone, the same whichever task
\* finished first.
C30_DataInRequestOrder ==
    finalStatus = "success" => finalData = FromTask(1)

\* the second task returned before the first, both with a record, and the
\* data lists the first task's record first
C30_Witness ==
    /\ finalStatus = "success"
    /\ Len(task) = 2
    /\ 2 \in task[1].doneBefore
    /\ Len(finalData) = 2
    /\ finalData[1].task = 1
    /\ finalData[2].task = 2

\* the first task returned before the second: the same data
C30_FirstReturnedFirst ==
    /\ finalStatus = "success"
    /\ Len(task) = 2
    /\ 1 \in task[2].doneBefore
    /\ Len(finalData) = 2
    /\ finalData[1].task = 1
    /\ finalData[2].task = 2

====
